---- MODULE Spec2Model ----
(***************************************************************************)
(* Model of the statement scanner of TXT_2_CSV (src/Untitled-1.py):        *)
(* the line normalizer clean, the amount parser decomma, the date          *)
(* normalizer norm_date, the classifier classify, the posting builder      *)
(* build, the scanner parse_txt and the reconciler compare_metrics.        *)
(*                                                                         *)
(* Text is modelled character by character on TLA+ strings (TLC evaluates  *)
(* Len, SubSeq, Head, Tail and \o on strings).  Whitespace is the space    *)
(* and the tab: a line of a file read through splitlines() holds no line   *)
(* break.  The character U+2022 of LEAD_SYM cannot be written in a TLA+    *)
(* string and is left out of LEAD_SYM.                                     *)
(***************************************************************************)
EXTENDS Integers, Sequences, FiniteSets, TLC

VARIABLES
    lines,            \* parse_txt: the raw lines of the file
    ref_y, ref_m,     \* parse_txt: reference year and month
    i,                \* parse_txt: cursor, 0-based as in the code
    skip,             \* parse_txt: skip counter
    rows,             \* parse_txt: postings appended so far / returned
    iof_postings,     \* parse_txt: IOF postings, appended to rows at the end
    seen_fx,          \* parse_txt: FX composite keys seen in this file
    last_date,        \* parse_txt: date token of the last dated posting
    pagamento_count,  \* parse_txt: number of payment postings
    stats,            \* parse_txt: the Counter of statistics
    pc,               \* control point
    arg,              \* argument of a pure function under check
    res               \* its result(s)

vars == <<lines, ref_y, ref_m, i, skip, rows, iof_postings, seen_fx,
          last_date, pagamento_count, stats, pc, arg, res>>

-----------------------------------------------------------------------------
(* Characters and strings                                                  *)

Ch(s, p) == IF p >= 1 /\ p <= Len(s) THEN SubSeq(s, p, p) ELSE ""

\* s[a-1:b], clipped to s as a Python slice is
Sub(s, a, b) ==
    IF a < 1 \/ a > b \/ a > Len(s) THEN ""
    ELSE SubSeq(s, a, IF b > Len(s) THEN Len(s) ELSE b)

From(s, p) == IF p > Len(s) THEN "" ELSE SubSeq(s, p, Len(s))

InStr(c, s) == c # "" /\ \E k \in 1..Len(s) : SubSeq(s, k, k) = c

IsDigit(c) == InStr(c, "0123456789")

\* \s on the characters a line can hold
IsSpace(c) == c = " " \/ c = "\t"

\* [\d.,]
IsAmtCh(c) == IsDigit(c) \/ c = "." \/ c = ","

LowerChars == "abcdefghijklmnopqrstuvwxyzçéãáóúâêõí"
UpperChars == "ABCDEFGHIJKLMNOPQRSTUVWXYZÇÉÃÁÓÚÂÊÕÍ"

IsAlphaUpper(c) == InStr(c, "ABCDEFGHIJKLMNOPQRSTUVWXYZ")
IsAlphaLower(c) == InStr(c, "abcdefghijklmnopqrstuvwxyz")

MapCh(c, from, to) ==
    IF InStr(c, from)
    THEN LET k == CHOOSE k \in 1..Len(from) : SubSeq(from, k, k) = c
         IN  SubSeq(to, k, k)
    ELSE c

RECURSIVE MapStr(_, _, _)
MapStr(s, from, to) ==
    IF s = "" THEN "" ELSE MapCh(Head(s), from, to) \o MapStr(Tail(s), from, to)

\* str.upper() and str.lower()
Upper(s) == MapStr(s, LowerChars, UpperChars)
Lower(s) == MapStr(s, UpperChars, LowerChars)

\* s[p:] starts with k
StartsAt(s, p, k) ==
    /\ p >= 1
    /\ p + Len(k) - 1 <= Len(s)
    /\ SubSeq(s, p, p + Len(k) - 1) = k

\* k in s
Contains(s, k) == \E p \in 1..(Len(s) + 1) : StartsAt(s, p, k)

\* the number of characters from p on that satisfy a class, given as a string
RECURSIVE RunIn(_, _, _)
RunIn(s, p, class) ==
    IF p <= Len(s) /\ InStr(Ch(s, p), class) THEN 1 + RunIn(s, p + 1, class) ELSE 0

DigitCh == "0123456789"
AmtCh == "0123456789.,"
SpaceCh == " \t"

\* int() of a string of digits
RECURSIVE StrToInt(_)
StrToInt(s) ==
    IF s = "" THEN 0
    ELSE LET c == SubSeq(s, Len(s), Len(s))
             k == CHOOSE k \in 1..10 : SubSeq(DigitCh, k, k) = c
         IN  StrToInt(SubSeq(s, 1, Len(s) - 1)) * 10 + (k - 1)

RECURSIVE IntToStr(_)
IntToStr(n) ==
    IF n < 10 THEN SubSeq(DigitCh, n + 1, n + 1)
    ELSE IntToStr(n \div 10) \o SubSeq(DigitCh, (n % 10) + 1, (n % 10) + 1)

\* format(n, "0w"): zero-padded to width w
RECURSIVE PadZero(_, _)
PadZero(s, w) == IF Len(s) >= w THEN s ELSE PadZero("0" \o s, w)

\* F applied to the value v: names an intermediate result, as an assignment
\* of the code does.  v is evaluated once, before F is applied.
With(v, F(_)) == CHOOSE r \in {F(x) : x \in {v}} : TRUE

-----------------------------------------------------------------------------
(* Optional and typed values of a posting                                  *)

None == [t |-> "none"]
Empty == [t |-> "str", s |-> ""]
Str(s) == [t |-> "str", s |-> s]
IntV(n) == [t |-> "int", n |-> n]

\* A Decimal: n / 10^e, kept in lowest form so that record equality is the
\* numeric equality (and hash) of Python's Decimal; minus zero is zero.
RECURSIVE Dec(_, _)
Dec(n, e) ==
    IF e > 0 /\ n % 10 = 0 THEN Dec(n \div 10, e - 1)
    ELSE [t |-> "dec", n |-> n, e |-> e]

RECURSIVE Pow10(_)
Pow10(e) == IF e = 0 THEN 1 ELSE 10 * Pow10(e - 1)

Abs(n) == IF n < 0 THEN -n ELSE n

-----------------------------------------------------------------------------
(* decomma                                                                 *)

RECURSIVE Keep(_, _)
Keep(s, class) ==
    IF s = "" THEN ""
    ELSE (IF InStr(Head(s), class) THEN Head(s) ELSE "") \o Keep(Tail(s), class)

RECURSIVE Remove(_, _)
Remove(s, c) ==
    IF s = "" THEN ""
    ELSE (IF Head(s) = c THEN "" ELSE Head(s)) \o Remove(Tail(s), c)

RECURSIVE Replace(_, _, _)
Replace(s, c, d) ==
    IF s = "" THEN ""
    ELSE (IF Head(s) = c THEN d ELSE Head(s)) \o Replace(Tail(s), c, d)

\* the text handed to Decimal(): spaces dropped, all but digits, comma and
\* minus dropped, the comma turned into the decimal point
DecommaText(x) ==
    Replace(Remove(Keep(Remove(x, " "), "0123456789,-"), "."), ",", ".")

\* Decimal(t) accepts, of the texts DecommaText yields, an optional minus
\* followed by digits with at most one point and at least one digit
DecimalOK(t) ==
    With(IF Ch(t, 1) = "-" THEN From(t, 2) ELSE t, LAMBDA u :
        /\ Keep(u, "0123456789.") = u
        /\ Len(Keep(u, ".")) <= 1
        /\ Len(Keep(u, DigitCh)) >= 1)

DecimalOf(t) ==
    With(Ch(t, 1) = "-", LAMBDA neg :
    With(IF neg THEN From(t, 2) ELSE t, LAMBDA u :
    With(IF Contains(u, ".") THEN CHOOSE p \in 1..Len(u) : Ch(u, p) = "." ELSE 0,
         LAMBDA dot :
    With(StrToInt(Keep(u, DigitCh)), LAMBDA n :
        Dec(IF neg THEN -n ELSE n, IF dot = 0 THEN 0 ELSE Len(u) - dot)))))

\* decomma(x): [ok |-> FALSE] stands for decimal.InvalidOperation raised
decomma(x) ==
    With(DecommaText(x), LAMBDA t :
        IF DecimalOK(t) THEN [ok |-> TRUE, v |-> DecimalOf(t)] ELSE [ok |-> FALSE])

-----------------------------------------------------------------------------
(* RE_DATE and norm_date                                                   *)

\* RE_DATE.match(s): (\d{1,3})/(\d{1,2})(?:/(\d{4}))? at the start of s
RE_DATE(s) ==
    With(RunIn(s, 1, DigitCh), LAMBDA nd :
    With(RunIn(s, nd + 2, DigitCh), LAMBDA nm :
    With(IF nm > 2 THEN 2 ELSE nm, LAMBDA lm :
    With(nd + 2 + lm, LAMBDA py :
    With(Ch(s, py) = "/" /\ RunIn(s, py + 1, DigitCh) >= 4, LAMBDA hasy :
        IF nd >= 1 /\ nd <= 3 /\ Ch(s, nd + 1) = "/" /\ nm >= 1
        THEN [ok |-> TRUE,
              d |-> SubSeq(s, 1, nd),
              m |-> SubSeq(s, nd + 2, nd + 1 + lm),
              y |-> IF hasy THEN SubSeq(s, py + 1, py + 4) ELSE "",
              endm |-> py - 1,
              end |-> IF hasy THEN py + 4 ELSE py - 1]
        ELSE [ok |-> FALSE])))))

norm_date(date, ry, rm) ==
    IF date = "" THEN ""
    ELSE With(RE_DATE(date), LAMBDA m :
             IF ~m.ok THEN date
             ELSE PadZero(IntToStr(IF m.y = "" THEN ry ELSE StrToInt(m.y)), 4) \o "-"
                    \o PadZero(IntToStr(StrToInt(m.m)), 2) \o "-"
                    \o PadZero(IntToStr(StrToInt(m.d)), 2))

-----------------------------------------------------------------------------
(* clean                                                                   *)

LEAD_SYM == ">@§$Z)_*®«» "

RECURSIVE LStrip(_, _)
LStrip(s, chars) ==
    IF s # "" /\ InStr(Head(s), chars) THEN LStrip(Tail(s), chars) ELSE s

RECURSIVE RStrip(_, _)
RStrip(s, chars) ==
    IF s # "" /\ InStr(Ch(s, Len(s)), chars)
    THEN RStrip(SubSeq(s, 1, Len(s) - 1), chars) ELSE s

\* str.strip()
Strip(s) == RStrip(LStrip(s, SpaceCh), SpaceCh)

\* re.sub(r"\s{2,}", " ", s)
RECURSIVE Collapse(_)
Collapse(s) ==
    IF s = "" THEN ""
    ELSE LET run == RunIn(s, 1, SpaceCh)
         IN  IF run >= 2 THEN " " \o Collapse(From(s, run + 1))
             ELSE Head(s) \o Collapse(Tail(s))

clean(raw) == Strip(Collapse(Replace(LStrip(raw, LEAD_SYM), "_", " ")))

-----------------------------------------------------------------------------
(* str.split(), " ".join() and str.title()                                 *)

RECURSIVE RunNotIn(_, _, _)
RunNotIn(s, p, class) ==
    IF p <= Len(s) /\ ~InStr(Ch(s, p), class) THEN 1 + RunNotIn(s, p + 1, class) ELSE 0

RECURSIVE Split(_)
Split(s) ==
    LET t == LStrip(s, SpaceCh)
        n == RunNotIn(t, 1, SpaceCh)
    IN  IF t = "" THEN <<>> ELSE <<SubSeq(t, 1, n)>> \o Split(From(t, n + 1))

RECURSIVE Join(_)
Join(parts) ==
    IF Len(parts) = 0 THEN ""
    ELSE IF Len(parts) = 1 THEN parts[1]
    ELSE parts[1] \o " " \o Join(Tail(parts))

IsCased(c) == InStr(c, LowerChars) \/ InStr(c, UpperChars)

RECURSIVE TitleFrom(_, _)
TitleFrom(s, prevCased) ==
    IF s = "" THEN ""
    ELSE (IF prevCased THEN Lower(Head(s)) ELSE Upper(Head(s)))
            \o TitleFrom(Tail(s), IsCased(Head(s)))

Title(s) == TitleFrom(s, FALSE)

-----------------------------------------------------------------------------
(* classify                                                                *)

\* SmallAmount with < for <=: an amount of exactly 0.30 is not small
SmallAmountBelow(amt) == Abs(amt.n) * 100 < 30 * Pow10(amt.e) /\ Abs(amt.n) > 0

\* abs(amt) <= Decimal("0.30") and abs(amt) > 0
SmallAmount(amt) == Abs(amt.n) * 100 <= 30 * Pow10(amt.e) /\ Abs(amt.n) > 0

mapping == <<
    <<"ACELERADOR", "SERVIÇOS">>,
    <<"PONTOS", "SERVIÇOS">>,
    <<"ANUIDADE", "SERVIÇOS">>,
    <<"SEGURO", "SERVIÇOS">>,
    <<"TARIFA", "SERVIÇOS">>,
    <<"PRODUTO", "SERVIÇOS">>,
    <<"SERVIÇO", "SERVIÇOS">>,
    <<"SUPERMERC", "SUPERMERCADO">>,
    <<"FARMAC", "FARMÁCIA">>,
    <<"DROG", "FARMÁCIA">>,
    <<"PANVEL", "FARMÁCIA">>,
    <<"RESTAUR", "RESTAURANTE">>,
    <<"PIZZ", "RESTAURANTE">>,
    <<"BAR", "RESTAURANTE">>,
    <<"CAFÉ", "RESTAURANTE">>,
    <<"POSTO", "POSTO">>,
    <<"COMBUST", "POSTO">>,
    <<"GASOLIN", "POSTO">>,
    <<"UBER", "TRANSPORTE">>,
    <<"TAXI", "TRANSPORTE">>,
    <<"TRANSP", "TRANSPORTE">>,
    <<"PASSAGEM", "TRANSPORTE">>,
    <<"AEROPORTO", "TURISMO">>,
    <<"HOTEL", "TURISMO">>,
    <<"TUR", "TURISMO">>,
    <<"ENTRETENIM", "TURISMO">>,
    <<"ALIMENT", "ALIMENTAÇÃO">>,
    <<"IFD", "ALIMENTAÇÃO">>,
    <<"SAUD", "SAÚDE">>,
    <<"VEIC", "VEÍCULOS">>,
    <<"VEST", "VESTUÁRIO">>,
    <<"LOJA", "VESTUÁRIO">>,
    <<"MAGAZINE", "VESTUÁRIO">>,
    <<"EDU", "EDUCAÇÃO">>,
    <<"HOBBY", "HOBBY">>,
    <<"DIVERS", "DIVERSOS">> >>

\* for k, v in mapping: if k in d: return v
RECURSIVE MappingFrom(_, _)
MappingFrom(d, j) ==
    IF j > Len(mapping) THEN ""
    ELSE IF Contains(d, mapping[j][1]) THEN mapping[j][2]
    ELSE MappingFrom(d, j + 1)

classify(desc, amt) ==
    LET d == Upper(desc)
    IN  IF Contains(d, "7117") THEN "PAGAMENTO"
        ELSE IF Contains(d, "AJUSTE") \/ SmallAmount(amt) THEN "AJUSTE"
        ELSE IF \E k \in {"IOF", "JUROS", "MULTA"} : Contains(d, k) THEN "ENCARGOS"
        ELSE IF MappingFrom(d, 1) # "" THEN MappingFrom(d, 1)
        ELSE IF Contains(d, "EUR") \/ Contains(d, "USD") \/ Contains(d, "FX") THEN "FX"
        ELSE "DIVERSOS"

-----------------------------------------------------------------------------
(* build                                                                   *)

SCHEMA == <<"card_last4", "post_date", "desc_raw", "valor_brl",
            "installment_seq", "installment_tot",
            "valor_orig", "moeda_orig", "valor_usd", "fx_rate",
            "iof_brl", "categoria_high", "merchant_city", "ledger_hash",
            "pagamento_fatura_anterior">>

\* kv.get(k)
Get(kv, k) == IF k \in DOMAIN kv THEN kv[k] ELSE None

\* The digest is modelled by the tuple it is computed from.
sha1(card, date, desc, valor_brl, installment_tot, categoria_high) ==
    <<card, date, desc, valor_brl, installment_tot, categoria_high>>

\* build(card, date, desc, valor_brl, cat, ry, rm, **kv).  card_last4,
\* post_date, desc_raw and categoria_high are strings; every other field is
\* a typed value, None or the empty marker Empty.
build(card, date, desc, valor_brl, cat, ry, rm, kv) ==
    With(IF date # "" THEN norm_date(date, ry, rm) ELSE "", LAMBDA norm :
    With(sha1(card, norm, desc, valor_brl, Get(kv, "installment_tot"), cat),
         LAMBDA ledger :
    With(IF cat = "FX" /\ "merchant_city" \in DOMAIN kv
            /\ kv["merchant_city"] \notin {None, Empty}
         THEN kv["merchant_city"]
         ELSE IF cat = "FX" /\ Contains(desc, " ")
         THEN Str(Title(Split(desc)[1]))
         ELSE None, LAMBDA city :
    With([k \in (DOMAIN kv) \ {"merchant_city"} |-> kv[k]], LAMBDA kv2 :
    With([card_last4 |-> card, post_date |-> norm, desc_raw |-> desc,
          valor_brl |-> valor_brl, categoria_high |-> cat,
          merchant_city |-> city, ledger_hash |-> ledger] @@ kv2, LAMBDA d :
        [k \in {SCHEMA[j] : j \in 1..Len(SCHEMA)} |->
            IF k \in DOMAIN d THEN d[k] ELSE Empty])))))

-----------------------------------------------------------------------------
(* The patterns of parse_txt.  Each is applied to a line returned by       *)
(* clean, which holds no run of two whitespace characters and neither      *)
(* starts nor ends with one.  A pattern yields [ok |-> FALSE] when it does *)
(* not match and its groups otherwise.                                     *)

NoMatch == [ok |-> FALSE]

\* the number of characters of a class that end at p, going backwards
RECURSIVE RunBackIn(_, _, _)
RunBackIn(s, p, class) ==
    IF p >= 1 /\ InStr(Ch(s, p), class) THEN 1 + RunBackIn(s, p - 1, class) ELSE 0

SkipSpace(s, p) == p + RunIn(s, p, SpaceCh)

\* pattern.search(s), given what the pattern yields at each position of s:
\* the match at the least position that has one
Search(ms) ==
    IF \E p \in 1..Len(ms) : ms[p].ok
    THEN ms[CHOOSE p \in 1..Len(ms) : ms[p].ok /\ \A r \in 1..(p - 1) : ~ms[r].ok]
    ELSE NoMatch

\* m1 or m2, on the results of two patterns
OrMatch(m1, m2) == IF m1.ok THEN m1 ELSE m2

\* RE_FX_L2_TOL (ci = FALSE) and RE_FX_L2_TOL_ANY (ci = TRUE):
\* ^(.+?)\s+([\d.,]+)\s+([A-Z]{3})\s+([\d.,]+)$
FX_L2(s, ci) ==
    With(RunBackIn(s, Len(s), AmtCh), LAMBDA n4 :
    With(Len(s) - n4, LAMBDA e3 :
    With(RunBackIn(s, e3, SpaceCh), LAMBDA w3 :
    With(e3 - w3, LAMBDA ec :
    With(RunBackIn(s, ec - 3, SpaceCh), LAMBDA w2 :
    With(ec - 3 - w2, LAMBDA e2 :
    With(RunBackIn(s, e2, AmtCh), LAMBDA n2 :
    With(RunBackIn(s, e2 - n2, SpaceCh), LAMBDA w1 :
    With(e2 - n2 - w1, LAMBDA e1 :
        IF /\ n4 >= 1 /\ w3 >= 1 /\ ec >= 3
           /\ \A k \in (ec - 2)..ec :
                  IsAlphaUpper(Ch(s, k)) \/ (ci /\ IsAlphaLower(Ch(s, k)))
           /\ w2 >= 1 /\ n2 >= 1 /\ w1 >= 1 /\ e1 >= 1
        THEN [ok |-> TRUE,
              g1 |-> Sub(s, 1, e1),
              g2 |-> Sub(s, e2 - n2 + 1, e2),
              g3 |-> Sub(s, ec - 2, ec),
              g4 |-> Sub(s, e3 + 1, Len(s))]
        ELSE NoMatch)))))))))

RE_FX_L2_TOL(s) == FX_L2(s, FALSE)
RE_FX_L2_TOL_ANY(s) == FX_L2(s, TRUE)

\* RE_FX_RATE at p: D[oó]lar de Convers[aã]o R\$ (?P<fx>[\d.,]+)
FX_RATE_At(s, p) ==
    With(RunIn(s, p + 22, AmtCh), LAMBDA n :
        IF /\ Ch(s, p) = "D" /\ InStr(Ch(s, p + 1), "oó")
           /\ StartsAt(s, p + 2, "lar de Convers")
           /\ InStr(Ch(s, p + 16), "aã")
           /\ StartsAt(s, p + 17, "o R$ ")
           /\ n >= 1
        THEN [ok |-> TRUE, fx |-> Sub(s, p + 22, p + 21 + n)]
        ELSE NoMatch)

\* RE_FX_RATE.search(s)
RE_FX_RATE(s) == Search([p \in 1..Len(s) |-> FX_RATE_At(s, p)])

\* ^(?P<date>\d{1,3}/\d{1,2}(?:/\d{4})?)\s+PAGAMENTO : the date and the
\* position after the marker
PayHead(s) ==
    With(RE_DATE(s), LAMBDA m :
        IF ~m.ok THEN NoMatch
        ELSE With(SkipSpace(s, m.end + 1), LAMBDA a :
                 IF a > m.end + 1 /\ Upper(Sub(s, a, a + 8)) = "PAGAMENTO"
                    /\ a + 8 <= Len(s)
                 THEN [ok |-> TRUE, date |-> Sub(s, 1, m.end), b |-> a + 9]
                 ELSE NoMatch))

\* (?P<amt>-?\s*[\d.,]+)\s*$ at q
TailAmtAt(s, q) ==
    With(SkipSpace(s, IF Ch(s, q) = "-" THEN q + 1 ELSE q), LAMBDA q2 :
    With(RunIn(s, q2, AmtCh), LAMBDA r :
        IF r >= 1 /\ SkipSpace(s, q2 + r) = Len(s) + 1
        THEN [ok |-> TRUE, amt |-> Sub(s, q, q2 + r - 1)]
        ELSE NoMatch))

\* RE_PAY_LINE_ANY.match(s):
\* ^(?P<date>...)\s+PAGAMENTO.*?(?P<amt>-?\s*[\d.,]+)\s*$  (re.I)
RE_PAY_LINE_ANY(s) ==
    With(PayHead(s), LAMBDA h :
        IF ~h.ok THEN NoMatch
        ELSE With({q \in h.b..Len(s) : TailAmtAt(s, q).ok}, LAMBDA qs :
                 IF qs = {} THEN NoMatch
                 ELSE [ok |-> TRUE, date |-> h.date,
                       amt |-> TailAmtAt(s, CHOOSE q \in qs : \A r \in qs : q <= r).amt]))

\* RE_PAY_LINE.match(s):
\* ^(?P<date>...)\s+PAGAMENTO(\s+EFETUADO)?\s+7117\s*[-\t ]+(?P<amt>-\s*[\d.,]+)\s*$
RE_PAY_LINE(s) ==
    With(PayHead(s), LAMBDA h :
        IF ~h.ok THEN NoMatch
        ELSE
    With(SkipSpace(s, h.b), LAMBDA f :
    With(IF f > h.b /\ Upper(Sub(s, f, f + 7)) = "EFETUADO" /\ f + 7 <= Len(s)
         THEN f + 8 ELSE h.b, LAMBDA c :
    With(SkipSpace(s, c), LAMBDA r :
    With(r + 4, LAMBDA g :
    With(Len(s) - RunBackIn(s, Len(s), SpaceCh), LAMBDA e :
    With(RunBackIn(s, e, AmtCh), LAMBDA nX :
    With(e - nX - RunBackIn(s, e - nX, SpaceCh), LAMBDA pm :
        IF /\ r > c /\ StartsAt(s, r, "7117")
           /\ nX >= 1 /\ Ch(s, pm) = "-" /\ pm > g
           /\ \A k \in g..(pm - 1) : InStr(Ch(s, k), "- \t")
        THEN [ok |-> TRUE, date |-> h.date, amt |-> Sub(s, pm, e)]
        ELSE NoMatch))))))))

\* RE_DOM.match(s): ^(?P<date>\d{1,3}/\d{1,2})\s+(?P<desc>.+?)\s+(?P<amt>[-\d.,]+)$
RE_DOM(s) ==
    With(RE_DATE(s), LAMBDA m :
        IF ~m.ok THEN NoMatch
        ELSE
    With(SkipSpace(s, m.endm + 1), LAMBDA ds :
    With(RunBackIn(s, Len(s), "-0123456789.,"), LAMBDA nA :
    With(RunBackIn(s, Len(s) - nA, SpaceCh), LAMBDA wA :
    With(Len(s) - nA - wA, LAMBDA de :
        IF ds > m.endm + 1 /\ nA >= 1 /\ wA >= 1 /\ ds <= de
        THEN [ok |-> TRUE,
              date |-> Sub(s, 1, m.endm),
              desc |-> Sub(s, ds, de),
              amt |-> Sub(s, Len(s) - nA + 1, Len(s))]
        ELSE NoMatch)))))

\* \d{1,2} at p: the number of digits taken
Num2At(s, p) ==
    IF IsDigit(Ch(s, p)) /\ IsDigit(Ch(s, p + 1)) THEN 2
    ELSE IF IsDigit(Ch(s, p)) THEN 1 ELSE 0

\* (\d{1,2})\s*SEP\s*(\d{1,2}) at p, SEP compared in upper case; sp tells
\* whether the \s* are there
TwoNumAt(s, p, sep, sp) ==
    With(Num2At(s, p), LAMBDA k1 :
    With(IF sp THEN SkipSpace(s, p + k1) ELSE p + k1, LAMBDA a :
    With(IF sp THEN SkipSpace(s, a + Len(sep)) ELSE a + Len(sep), LAMBDA b :
    With(Num2At(s, b), LAMBDA k2 :
        IF k1 >= 1 /\ a + Len(sep) - 1 <= Len(s)
           /\ Upper(Sub(s, a, a + Len(sep) - 1)) = sep /\ k2 >= 1
        THEN [ok |-> TRUE, lastindex |-> 2,
              g1 |-> Sub(s, p, p + k1 - 1), g2 |-> Sub(s, b, b + k2 - 1)]
        ELSE NoMatch))))

\* RE_INST at p: (\d{1,2})/(\d{1,2})
RE_INST_At(s, p) == TwoNumAt(s, p, "/", FALSE)

\* RE_INST_TXT at p: \+\s*(\d+)\s*x\s*R\$
RE_INST_TXT_At(s, p) ==
    With(SkipSpace(s, p + 1), LAMBDA a :
    With(RunIn(s, a, DigitCh), LAMBDA n :
    With(SkipSpace(s, a + n), LAMBDA x :
    With(SkipSpace(s, x + 1), LAMBDA r :
        IF Ch(s, p) = "+" /\ n >= 1 /\ Ch(s, x) = "x" /\ StartsAt(s, r, "R$")
        THEN [ok |-> TRUE, lastindex |-> 1, g1 |-> Sub(s, a, a + n - 1)]
        ELSE NoMatch))))

\* (\d{1,2})\s*x\s*R\$ at p (re.I): group 3 of re_parc
NumXAt(s, p) ==
    With(Num2At(s, p), LAMBDA k1 :
    With(SkipSpace(s, p + k1), LAMBDA x :
    With(SkipSpace(s, x + 1), LAMBDA r :
        IF k1 >= 1 /\ Upper(Ch(s, x)) = "X" /\ r + 1 <= Len(s)
           /\ Upper(Sub(s, r, r + 1)) = "R$"
        THEN [ok |-> TRUE, lastindex |-> 3, g3 |-> Sub(s, p, p + k1 - 1)]
        ELSE NoMatch)))

\* re_parc at p (re.I):
\* (\d{1,2})\s*/\s*(\d{1,2})|(\d{1,2})\s*x\s*R\$|(\d{1,2})\s*de\s*(\d{1,2})
re_parc_At(s, p) ==
    OrMatch(TwoNumAt(s, p, "/", TRUE),
    OrMatch(NumXAt(s, p),
            With(TwoNumAt(s, p, "DE", TRUE), LAMBDA a3 :
                IF a3.ok
                THEN [ok |-> TRUE, lastindex |-> 5, g4 |-> a3.g1, g5 |-> a3.g2]
                ELSE NoMatch)))

\* ins = RE_INST.search(desc) or RE_INST_TXT.search(desc) or re_parc.search(desc)
InsOf(desc) ==
    OrMatch(Search([p \in 1..Len(desc) |-> RE_INST_At(desc, p)]),
    OrMatch(Search([p \in 1..Len(desc) |-> RE_INST_TXT_At(desc, p)]),
            Search([p \in 1..Len(desc) |-> re_parc_At(desc, p)])))

\* seq, tot as lines 245-260 of parse_txt set them
SeqTot(desc) ==
    With(InsOf(desc), LAMBDA ins :
        IF ~ins.ok THEN [seq |-> None, tot |-> None]
        ELSE IF ins.lastindex = 2
        THEN [seq |-> IntV(StrToInt(ins.g1)), tot |-> IntV(StrToInt(ins.g2))]
        ELSE IF ins.lastindex = 3
        THEN [seq |-> IntV(StrToInt(ins.g3)), tot |-> None]
        ELSE IF ins.lastindex = 5
        THEN [seq |-> IntV(StrToInt(ins.g4)), tot |-> IntV(StrToInt(ins.g5))]
        ELSE [seq |-> None, tot |-> None])

\* truth value of an int or None
Truthy(v) == v # None /\ v.n # 0

\* if tot and seq and seq > tot
OutOfCycle(st) == Truthy(st.tot) /\ Truthy(st.seq) /\ st.seq.n > st.tot.n

\* RE_IOF_LINE at p: Repasse de IOF em R\$[\s]*([\d.,]+)  (re.I)
RE_IOF_LINE_At(s, p) ==
    With(SkipSpace(s, p + 20), LAMBDA a :
    With(RunIn(s, a, AmtCh), LAMBDA n :
        IF p + 19 <= Len(s) /\ Upper(Sub(s, p, p + 19)) = "REPASSE DE IOF EM R$"
           /\ n >= 1
        THEN [ok |-> TRUE, g1 |-> Sub(s, a, a + n - 1)]
        ELSE NoMatch))

RE_IOF_LINE(s) == Search([p \in 1..Len(s) |-> RE_IOF_LINE_At(s, p)])

\* the end of (?:\.\d{3})* from p
RECURSIVE ThousandsEnd(_, _)
ThousandsEnd(s, p) ==
    IF Ch(s, p) = "." /\ RunIn(s, p + 1, DigitCh) >= 3
    THEN ThousandsEnd(s, p + 4) ELSE p

\* RE_BRL at p: -?\s*\d{1,3}(?:\.\d{3})*,\d{2}
RE_BRL_At(s, p) ==
    With(SkipSpace(s, IF Ch(s, p) = "-" THEN p + 1 ELSE p), LAMBDA p2 :
    With(RunIn(s, p2, DigitCh), LAMBDA n :
    With(ThousandsEnd(s, p2 + n), LAMBDA c :
        IF n >= 1 /\ n <= 3 /\ Ch(s, c) = "," /\ RunIn(s, c + 1, DigitCh) >= 2
        THEN [ok |-> TRUE, g0 |-> Sub(s, p, c + 2)]
        ELSE NoMatch)))

RE_BRL(s) == Search([p \in 1..Len(s) |-> RE_BRL_At(s, p)])

\* any(x in line.upper() for x in ("JUROS", "MULTA", "IOF DE FINANCIAMENTO"))
IsChargeLine(s) ==
    \E x \in {"JUROS", "MULTA", "IOF DE FINANCIAMENTO"} : Contains(Upper(s), x)

-----------------------------------------------------------------------------
(* Files                                                                   *)

\* the longest file of the general specification
MaxLines == 3

\* the raw lines a file of the general specification is made of
RawLines == {
    "10/05 LOJA 10,00",
    ">10/05 LOJA_2/3  10,00",
    "10/05 LOJA 5/3 10,00",
    "10/05 LOJA 5/0 10,00",
    "10/05 LOJA -",
    "11/05 PAGAMENTO 7117 -5,00",
    "11/05 PAGAMENTO 7117 0,00",
    "11/05 PAGAMENTO BOLETO 5,00",
    "11/05 PAGAMENTO BOLETO -5,00",
    "Repasse de IOF em R$ 1,00",
    "JUROS 3,00",
    "SEATTLE 10,00 USD 50,00",
    "Dolar de Conversao R$ 5,00" }

\* the longest file of the specification of FX blocks
MaxLinesFX == 6

\* its raw lines: the three lines of an FX block, and the first of them
\* with the same date written differently
FXLines == {
    "12/05 AMAZON 50,00",
    "12/5 AMAZON 50,00",
    "SEATTLE 10,00 USD 50,00",
    "Dolar de Conversao R$ 5,00" }

\* the longest file of the specification of IOF lines
MaxLinesIOF == 5

\* its raw lines: a domestic purchase, an FX block, a payment, an IOF line
IOFLines == {
    "10/05 LOJA 10,00",
    "12/05 AMAZON 50,00",
    "SEATTLE 10,00 USD 50,00",
    "Dolar de Conversao R$ 5,00",
    "11/05 PAGAMENTO 7117 -5,00",
    "Repasse de IOF em R$ 1,00" }

\* the longest file of the specification of unmatched lines
MaxLinesMiss == 3

\* its raw lines: a line no pattern matches, two dated lines RE_DOM does not
\* match (the second with a charge keyword and an amount), a domestic
\* purchase, an IOF line, an interest line and an interest line of amount 0
MissLines == {
    "SALDO ANTERIOR",
    "10/05 LOJA",
    "10/05 MULTA 5,00 X",
    "10/05 LOJA 10,00",
    "Repasse de IOF em R$ 1,00",
    "JUROS 3,00",
    "JUROS 0,00" }

\* the longest file of the specification of the cursor
MaxLinesCursor == 5

\* its raw lines: the three lines of an FX block (the first is a domestic
\* purchase when the other two do not follow it), a line no pattern
\* matches, and a purchase whose amount makes decomma raise
CursorLines == {
    "12/05 AMAZON 50,00",
    "SEATTLE 10,00 USD 50,00",
    "Dolar de Conversao R$ 5,00",
    "SALDO ANTERIOR",
    "10/05 LOJA -" }

\* every raw line of every file
AllRaw == RawLines \cup FXLines \cup IOFLines \cup MissLines \cup CursorLines

-----------------------------------------------------------------------------
(* parse_txt                                                               *)

\* card = "0000"; parse_txt never assigns it again
card == "0000"

\* float(valor): the same number, held as a float
Float(v) == [v EXCEPT !.t = "float"]

\* stats[k] += 1 on a Counter
Inc(c, k) == IF k \in DOMAIN c THEN [c EXCEPT ![k] = @ + 1] ELSE c @@ (k :> 1)

\* stats[k] read from a Counter
Count(c, k) == IF k \in DOMAIN c THEN c[k] ELSE 0

\* last_date or ""
DateOr(d) == IF d = None THEN "" ELSE d.s

\* mfx2 = RE_FX_L2_TOL.match(fx_line2) or RE_FX_L2_TOL_ANY.match(fx_line2)
Mfx2(l2) == OrMatch(RE_FX_L2_TOL(l2), RE_FX_L2_TOL_ANY(l2))

\* Mp with the second pattern left out: a payment rule tied to the
\* recipient code, as RE_PAY_LINE alone would give
MpRecipientOnly(line) == RE_PAY_LINE(line)

\* mp = RE_PAY_LINE.match(line) or RE_PAY_LINE_ANY.match(line)
Mp(line) == OrMatch(RE_PAY_LINE(line), RE_PAY_LINE_ANY(line))

\* What the patterns, decomma and classify yield on one cleaned line: the
\* values parse_txt computes from the line alone, under the names it gives
\* them.  They are tabulated once for the lines of the files (LexOf).
Lex(line) ==
    With(Split(line), LAMBDA parts :
    With(Mfx2(line), LAMBDA mfx2 :
    With(RE_FX_RATE(line), LAMBDA mrate :
    With(Mp(line), LAMBDA mp :
    With(RE_DOM(line), LAMBDA md :
    With(IF md.ok THEN decomma(md.amt) ELSE NoMatch, LAMBDA amt :
    With(RE_IOF_LINE(line), LAMBDA m_iof :
    With(RE_BRL(line), LAMBDA mval :
    With(IF mval.ok THEN decomma(mval.g0) ELSE NoMatch, LAMBDA valor :
        [line |-> line,
         is_date |-> RE_DATE(line).ok,
         \* the first line of an FX block (lines 191-194)
         parts |-> parts,
         valor_brl |-> IF Len(parts) > 0 THEN decomma(parts[Len(parts)]) ELSE NoMatch,
         desc |-> IF Len(parts) > 0 THEN Join(SubSeq(parts, 2, Len(parts) - 1)) ELSE "",
         \* its second line (lines 188, 195-198)
         mfx2 |-> mfx2,
         valor_orig |-> IF mfx2.ok THEN decomma(mfx2.g2) ELSE NoMatch,
         valor_usd |-> IF mfx2.ok THEN decomma(mfx2.g4) ELSE NoMatch,
         \* its third line (lines 189, 199)
         mrate |-> mrate,
         fx_rate |-> IF mrate.ok THEN decomma(mrate.fx) ELSE NoMatch,
         \* a payment line (lines 215-217)
         mp |-> mp,
         valor_pay |-> IF mp.ok THEN decomma(mp.amt) ELSE NoMatch,
         \* a domestic purchase line (lines 238-261)
         md |-> md,
         amt |-> amt,
         st |-> IF md.ok THEN SeqTot(md.desc) ELSE NoMatch,
         cat |-> IF amt.ok THEN classify(md.desc, amt.v) ELSE "",
         \* an IOF remittance line (lines 271-273)
         m_iof |-> m_iof,
         valor_iof |-> IF m_iof.ok THEN decomma(m_iof.g1) ELSE NoMatch,
         \* an interest or fee line (lines 279-283): a charge keyword, an
         \* amount, and valor != 0
         is_charge |-> IsChargeLine(line) /\ mval.ok /\ valor.ok /\ valor.v.n # 0,
         valor_charge |-> valor])))))))))

Cleaned == [r \in AllRaw |-> clean(r)] @@ <<>>

LexOf == [l \in {Cleaned[r] : r \in AllRaw} |-> Lex(l)] @@ <<>>

\* line = clean(lines[k]) (k is 0-based, as in the code)
LineAt(k) == Cleaned[lines[k + 1]]

\* what Lex yields on line k of the file
LexAt(k) == LexOf[LineAt(k)]

\* lines 185-190: the condition under which the FX branch is taken at k
IsFXBlock(k) ==
    /\ LexAt(k).is_date
    /\ k + 2 < Len(lines)
    /\ LexAt(k + 1).mfx2.ok
    /\ LexAt(k + 2).mrate.ok

\* an exception leaves parse_txt: nothing is returned
Raise ==
    /\ pc' = "aborted"
    /\ UNCHANGED <<lines, ref_y, ref_m, i, skip, rows, iof_postings, seen_fx,
                   last_date, pagamento_count, stats, arg, res>>

\* IsDuplicateFX with the membership test lost: no block is a repeat
NeverDuplicateFX(fx_key, seen) == FALSE

\* if fx_key in seen_fx (lines 202-203)
IsDuplicateFX(fx_key, seen) == fx_key \in seen

\* lines 200-213, on what Lex yields on the three lines of the block and on
\* fx_key
FXPosting(l1, l2, l3, fx_key) ==
    /\ IF IsDuplicateFX(fx_key, seen_fx)
       THEN UNCHANGED <<seen_fx, rows, stats>>
       ELSE /\ seen_fx' = seen_fx \cup {fx_key}
            /\ rows' = Append(rows,
                   build(card, l1.parts[1], l1.desc, l1.valor_brl.v, "FX", ref_y, ref_m,
                         [valor_orig |-> l2.valor_orig.v,
                          moeda_orig |-> Str(l2.mfx2.g3),
                          valor_usd |-> l2.valor_usd.v,
                          fx_rate |-> l3.fx_rate.v,
                          merchant_city |-> Str(l2.mfx2.g1)]))
            /\ stats' = Inc(stats, "fx")
    /\ i' = i + 3
    /\ UNCHANGED <<lines, ref_y, ref_m, skip, iof_postings, last_date,
                   pagamento_count, pc, arg, res>>

\* lines 191-213, on what Lex yields on the three lines of the block:
\* post_date = parts[0], merchant_city = mfx2.group(1), moeda_orig =
\* mfx2.group(3), fx_key = (desc, post_date, valor_brl, valor_orig,
\* moeda_orig, fx_rate)
FXBlock(l1, l2, l3) ==
    IF ~(l1.valor_brl.ok /\ l2.valor_orig.ok /\ l2.valor_usd.ok /\ l3.fx_rate.ok)
    THEN Raise
    ELSE FXPosting(l1, l2, l3,
                   <<l1.desc, l1.parts[1], l1.valor_brl.v, l2.valor_orig.v,
                     l2.mfx2.g3, l3.fx_rate.v>>)

\* IsPositivePayment with > for >=: a payment of zero is let through
IsStrictlyPositivePayment(valor_final) == valor_final.n > 0

\* if valor_final >= 0 (line 219)
IsPositivePayment(valor_final) == valor_final.n >= 0

\* lines 218-235, on the date of the payment line and valor_final
PaymentPosting(date, valor_final) ==
    IF IsPositivePayment(valor_final)
    THEN /\ i' = i + 1
         /\ UNCHANGED <<lines, ref_y, ref_m, skip, rows, iof_postings, seen_fx,
                        last_date, pagamento_count, stats, pc, arg, res>>
    ELSE /\ rows' = Append(rows,
                build(card, date, "PAGAMENTO", valor_final, "PAGAMENTO",
                      ref_y, ref_m, [pagamento_fatura_anterior |-> Empty]))
         /\ stats' = Inc(stats, "pagamento")
         /\ last_date' = Str(date)
         /\ pagamento_count' = pagamento_count + 1
         /\ i' = i + 1
         /\ UNCHANGED <<lines, ref_y, ref_m, skip, iof_postings, seen_fx,
                        pc, arg, res>>

\* lines 216-235, on what Lex yields on the line
Payment(l) ==
    IF l.mp.amt # ""
    THEN IF ~l.valor_pay.ok THEN Raise
         ELSE PaymentPosting(l.mp.date, Float(l.valor_pay.v))
    ELSE /\ i' = i + 1
         /\ UNCHANGED <<lines, ref_y, ref_m, skip, rows, iof_postings, seen_fx,
                        last_date, pagamento_count, stats, pc, arg, res>>

\* lines 237-268, on what Lex yields on the line
Domestic(l) ==
    IF ~l.md.ok
    THEN /\ i' = i + 1
         /\ UNCHANGED <<lines, ref_y, ref_m, skip, rows, iof_postings, seen_fx,
                        last_date, pagamento_count, stats, pc, arg, res>>
    ELSE IF ~l.amt.ok THEN Raise
    ELSE IF OutOfCycle(l.st)
    THEN /\ i' = i + 1
         /\ UNCHANGED <<lines, ref_y, ref_m, skip, rows, iof_postings, seen_fx,
                        last_date, pagamento_count, stats, pc, arg, res>>
    ELSE /\ rows' = Append(rows,
                build(card, l.md.date, l.md.desc, l.amt.v, l.cat, ref_y, ref_m,
                      [installment_seq |-> l.st.seq, installment_tot |-> l.st.tot]))
         /\ stats' = Inc(stats, Lower(l.cat))
         /\ last_date' = Str(l.md.date)
         /\ i' = i + 1
         /\ UNCHANGED <<lines, ref_y, ref_m, skip, iof_postings, seen_fx,
                        pagamento_count, pc, arg, res>>

\* lines 271-277, on what Lex yields on the line
IOFLine(l) ==
    IF ~l.valor_iof.ok THEN Raise
    ELSE /\ iof_postings' = Append(iof_postings,
                build(card, DateOr(last_date), "Repasse de IOF em R$", l.valor_iof.v,
                      "IOF", ref_y, ref_m, [iof_brl |-> l.valor_iof.v]))
         /\ stats' = Inc(stats, "iof")
         /\ i' = i + 1
         /\ UNCHANGED <<lines, ref_y, ref_m, skip, rows, seen_fx, last_date,
                        pagamento_count, pc, arg, res>>

\* lines 282-287, on what Lex yields on the line
ChargeLine(l) ==
    /\ rows' = Append(rows,
           build(card, DateOr(last_date), l.line, l.valor_charge.v, "ENCARGOS",
                 ref_y, ref_m, <<>>))
    /\ stats' = Inc(stats, "encargos")
    /\ i' = i + 1
    /\ UNCHANGED <<lines, ref_y, ref_m, skip, iof_postings, seen_fx, last_date,
                   pagamento_count, pc, arg, res>>

\* Miss with i += 1 (line 298) lost: the cursor stays on the line
MissWithoutAdvance ==
    /\ stats' = Inc(stats, "regex_miss")
    /\ UNCHANGED <<lines, ref_y, ref_m, i, skip, rows, iof_postings, seen_fx,
                   last_date, pagamento_count, pc, arg, res>>

\* lines 288-298 (the diagnostic file written when verbose is not modelled)
Miss ==
    /\ stats' = Inc(stats, "regex_miss")
    /\ i' = i + 1
    /\ UNCHANGED <<lines, ref_y, ref_m, skip, rows, iof_postings, seen_fx, last_date,
                   pagamento_count, pc, arg, res>>

\* lines 215-298: the rules after the FX branch, on what Lex yields on the line
Rules(l) ==
    IF l.mp.ok THEN Payment(l)
    ELSE IF l.is_date THEN Domestic(l)
    ELSE IF l.m_iof.ok THEN IOFLine(l)
    ELSE IF l.is_charge THEN ChargeLine(l)
    ELSE Miss

\* One iteration of the while loop of parse_txt (lines 178-298).
Scan ==
    /\ pc = "scan"
    /\ i < Len(lines)
    /\ IF skip # 0
       THEN /\ skip' = skip - 1
            /\ i' = i + 1
            /\ UNCHANGED <<lines, ref_y, ref_m, rows, iof_postings, seen_fx, last_date,
                           pagamento_count, stats, pc, arg, res>>
       ELSE IF IsFXBlock(i) THEN FXBlock(LexAt(i), LexAt(i + 1), LexAt(i + 2))
       ELSE Rules(LexAt(i))

\* Retained with the test of the date lost
RetainedWithAmount(r) == r.valor_brl \notin {Empty, None}

\* the final filter (line 301): r.get("post_date") and
\* r.get("valor_brl") not in ("", None)
Retained(r) == r.post_date # "" /\ r.valor_brl \notin {Empty, None}

\* lines 299-303: the loop has ended; rows is what parse_txt returns
Finish ==
    /\ pc = "scan"
    /\ i >= Len(lines)
    /\ rows' = SelectSeq(rows \o iof_postings, Retained)
    /\ stats' = ("postings" :> Len(rows')) @@ stats
    /\ pc' = "done"
    /\ UNCHANGED <<lines, ref_y, ref_m, i, skip, iof_postings, seen_fx, last_date,
                   pagamento_count, arg, res>>

Next == Scan \/ Finish

-----------------------------------------------------------------------------
(* Specifications                                                          *)

FilesOf(raw, n) == UNION {[1..k -> raw] : k \in 0..n}

InitScan(files) ==
    /\ lines \in files
    /\ ref_y = 2025
    /\ ref_m = 5
    /\ i = 0
    /\ skip = 0
    /\ rows = <<>>
    /\ iof_postings = <<>>
    /\ seen_fx = {}
    /\ last_date = None
    /\ pagamento_count = 0
    /\ stats = ("lines" :> Len(lines))
    /\ pc = "scan"
    /\ arg = <<>>
    /\ res = <<>>

Init == InitScan(FilesOf(RawLines, MaxLines))

Spec == Init /\ [][Next]_vars

\* parse_txt on files made of FX blocks
InitFX == InitScan(FilesOf(FXLines, MaxLinesFX))

SpecFX == InitFX /\ [][Next]_vars

\* parse_txt on files in which IOF lines follow purchases and payments
InitIOF == InitScan(FilesOf(IOFLines, MaxLinesIOF))

SpecIOF == InitIOF /\ [][Next]_vars

\* parse_txt on files in which lines that no rule matches occur
InitMiss == InitScan(FilesOf(MissLines, MaxLinesMiss))

SpecMiss == InitMiss /\ [][Next]_vars

\* parse_txt on files of FX blocks, unmatched lines and lines that make it
\* raise.  The loop is sequential code: while a step of it can be taken, one
\* is taken.
InitCursor == InitScan(FilesOf(CursorLines, MaxLinesCursor))

SpecCursor == InitCursor /\ [][Next]_vars /\ WF_vars(Next)

-----------------------------------------------------------------------------
(* Properties of parse_txt                                                 *)

\* the loop is about to apply its rules to line i
Scanning == pc = "scan" /\ skip = 0 /\ i < Len(lines)

\* The rule a posting comes from, read off the fields build was given:
\* the FX branch passes valor_orig, the domestic branch installment_seq
\* (possibly None), the payment branch the description "PAGAMENTO".
FromFXBlock(r) == r.valor_orig # Empty

FromDomestic(r) == r.installment_seq # Empty

FromPayment(r) ==
    r.desc_raw = "PAGAMENTO" /\ r.categoria_high = "PAGAMENTO" /\ ~FromDomestic(r)

\* one posting was appended to rows in this step
Appended == Len(rows') = Len(rows) + 1 /\ SubSeq(rows', 1, Len(rows)) = rows

\* C2: every posting of the list parse_txt returns has a non-empty
\* normalized post_date and a present valor_brl (neither "" nor None); an
\* IOF or interest/fee posting built while last_date was unset is not in
\* the returned list.
C2_ReturnedComplete ==
    pc = "done" =>
        \A k \in 1..Len(rows) :
            rows[k].post_date # "" /\ rows[k].valor_brl \notin {Empty, None}

\* C2: parse_txt has returned one posting of a file in which an interest
\* line and an IOF line came before the first dated line.
C2_Witness ==
    /\ pc = "done"
    /\ Count(stats, "encargos") = 1
    /\ Count(stats, "iof") = 1
    /\ iof_postings[1].post_date = ""
    /\ Len(rows) = 1
    /\ FromDomestic(rows[1])

\* C3, as stated: every returned posting that has both installment_seq and
\* installment_tot present has installment_seq <= installment_tot.
C3_SeqWithinTot ==
    pc = "done" =>
        \A k \in 1..Len(rows) :
            (rows[k].installment_seq.t = "int" /\ rows[k].installment_tot.t = "int")
                => rows[k].installment_seq.n <= rows[k].installment_tot.n

\* C4, as stated: no file makes parse_txt abort.
C4_NeverAborts == pc # "aborted"

\* decomma of the amount group of RE_PAY_LINE_ANY, per cleaned line
PayAnyOf ==
    [l \in {Cleaned[r] : r \in AllRaw} |->
        LET m == RE_PAY_LINE_ANY(l)
        IN  IF m.ok THEN [ok |-> TRUE, valor |-> decomma(m.amt)] ELSE NoMatch] @@ <<>>

\* C6: a line the payment rule matches (the FX rule not having consumed
\* it) whose amount is zero or positive produces no posting, counts as no
\* miss and moves the cursor by exactly 1; and every posting the payment
\* rule has created has valor_brl < 0.
C6_NonNegativePaymentSkipped ==
    /\ [][(/\ Scanning
           /\ ~IsFXBlock(i)
           /\ PayAnyOf[LineAt(i)].ok
           /\ PayAnyOf[LineAt(i)].valor.ok
           /\ PayAnyOf[LineAt(i)].valor.v.n >= 0)
          => (/\ i' = i + 1
              /\ UNCHANGED <<rows, iof_postings, stats, last_date, pagamento_count>>)]_vars
    /\ [](\A k \in 1..Len(rows) : FromPayment(rows[k]) => rows[k].valor_brl.n < 0)

\* C6: a payment of zero was skipped and the negative payment after it was
\* turned into a posting.
C6_Witness ==
    /\ i = 2
    /\ PayAnyOf[LineAt(0)].ok
    /\ PayAnyOf[LineAt(0)].valor.v.n = 0
    /\ Len(rows) = 1
    /\ FromPayment(rows[1])
    /\ rows[1].valor_brl.n < 0
    /\ Count(stats, "regex_miss") = 0

\* C7, as stated: a dated line that holds PAGAMENTO but not the recipient
\* code 7117 is not consumed by the payment rule: it is neither turned into
\* a PAGAMENTO posting nor dropped as a positive payment, it goes to the
\* domestic rule (which appends a domestic posting when RE_DOM matches).
C7_PaymentNeedsRecipientCode ==
    [][(/\ Scanning
        /\ ~IsFXBlock(i)
        /\ PayAnyOf[LineAt(i)].ok
        /\ ~Contains(LineAt(i), "7117")
        /\ RE_DOM(LineAt(i)).ok)
       => (Appended /\ FromDomestic(rows'[Len(rows')]))]_vars

\* C7, amended: the payment rule fires on every line (not consumed by the FX
\* rule) made of a date, the marker PAGAMENTO and a signed amount at its
\* end, with or without the recipient code 7117: the line moves the cursor
\* by 1 and becomes a PAGAMENTO posting when its amount is negative and
\* nothing when it is not; it never reaches the domestic rule.
C7_PaymentAnyRecipient ==
    [][(/\ Scanning
        /\ ~IsFXBlock(i)
        /\ PayAnyOf[LineAt(i)].ok
        /\ PayAnyOf[LineAt(i)].valor.ok)
       => (/\ i' = i + 1
           /\ IF PayAnyOf[LineAt(i)].valor.v.n < 0
              THEN /\ Appended
                   /\ FromPayment(rows'[Len(rows')])
                   /\ pagamento_count' = pagamento_count + 1
              ELSE UNCHANGED <<rows, pagamento_count>>)]_vars

\* C7: a line with PAGAMENTO and without 7117 has become a PAGAMENTO
\* posting, and one with a positive amount has been dropped.
C7_Witness ==
    /\ i = 2
    /\ ~Contains(LineAt(0), "7117")
    /\ ~Contains(LineAt(1), "7117")
    /\ PayAnyOf[LineAt(0)].ok
    /\ PayAnyOf[LineAt(1)].ok
    /\ PayAnyOf[LineAt(1)].valor.v.n > 0
    /\ Len(rows) = 1
    /\ FromPayment(rows[1])

-----------------------------------------------------------------------------
(* Properties of unmatched lines                                           *)

\* none of the five rules matches line k: it starts no FX block, neither
\* payment pattern matches it, RE_DOM does not match it, RE_IOF_LINE is not
\* found in it, and it is no interest or fee line with an amount other than 0
NoRuleMatches(k) ==
    /\ ~IsFXBlock(k)
    /\ ~LexAt(k).mp.ok
    /\ ~LexAt(k).md.ok
    /\ ~LexAt(k).m_iof.ok
    /\ ~LexAt(k).is_charge

\* C11, as stated: every line at which the cursor stops and that none of
\* the five rules matches adds exactly one to the miss counter and moves the
\* cursor by 1, a line that starts with a date token and does not fit the
\* domestic-purchase pattern included.
C11_UnmatchedIsMiss ==
    [][(Scanning /\ NoRuleMatches(i))
       => (/\ Count(stats', "regex_miss") = Count(stats, "regex_miss") + 1
           /\ i' = i + 1)]_vars

-----------------------------------------------------------------------------
(* Properties of the cursor                                                *)

\* C12: every iteration of the loop of parse_txt that runs to its end moves
\* the cursor i forward, by exactly 3 when it consumes an FX block, which it
\* does only when i + 2 < len(lines), and by exactly 1 otherwise (an
\* iteration that an exception cuts short ends the scan); so i only grows,
\* which makes every line the start of at most one rule application;
\* 0 <= i <= len(lines) and skip = 0 hold in every reachable state; and the
\* scan of every file ends.
C12_CursorAdvancesAndScanEnds ==
    /\ [][(pc = "scan" /\ i < Len(lines))
          => (\/ pc' = "aborted" /\ i' = i
              \/ /\ pc' = "scan"
                 /\ i' = IF IsFXBlock(i) THEN i + 3 ELSE i + 1
                 /\ (i' = i + 3 => i + 2 < Len(lines)))]_vars
    /\ [][i' >= i]_vars
    /\ [](0 <= i /\ i <= Len(lines) /\ skip = 0)
    /\ <>(pc \in {"done", "aborted"})

\* C12: parse_txt has returned after a scan of five lines in which it took
\* one line, then an FX block of three, then one line again.
C12_Witness ==
    /\ pc = "done"
    /\ Len(lines) = 5
    /\ i = 5
    /\ Count(stats, "regex_miss") = 2
    /\ Count(stats, "fx") = 1
    /\ IsFXBlock(1)

-----------------------------------------------------------------------------
(* Properties of the FX rule and of the date of IOF postings               *)

\* lines k, k+1, k+2 form an FX block whose four amounts parse
ValidFXBlock(k) ==
    /\ IsFXBlock(k)
    /\ LexOf[LineAt(k)].valor_brl.ok
    /\ LexOf[LineAt(k + 1)].valor_orig.ok
    /\ LexOf[LineAt(k + 1)].valor_usd.ok
    /\ LexOf[LineAt(k + 2)].fx_rate.ok

\* the composite key of the block at k, the date being the token as written
BlockKey(k) ==
    <<LexOf[LineAt(k)].desc,
      LexOf[LineAt(k)].parts[1],
      LexOf[LineAt(k)].valor_brl.v,
      LexOf[LineAt(k + 1)].valor_orig.v,
      LexOf[LineAt(k + 1)].mfx2.g3,
      LexOf[LineAt(k + 2)].fx_rate.v>>

\* the same fields as an FX posting stores them, the date normalized
StoredKey(r) ==
    <<r.desc_raw, r.post_date, r.valor_brl, r.valor_orig, r.moeda_orig.s, r.fx_rate>>

\* a key as the posting built from its block stores it
NormKey(key) ==
    <<key[1], norm_date(key[2], ref_y, ref_m), key[3], key[4], key[5], key[6]>>

FXRows == {k \in 1..Len(rows) : FromFXBlock(rows[k])}

\* C1, as stated: a valid FX block moves the cursor by 3 and appends one FX
\* posting unless its key was seen, and no two FX postings of rows have the
\* same composite key of description, date, BRL amount, original amount,
\* currency and rate.
C1_NoTwoFXWithSameKey ==
    /\ [][(Scanning /\ ValidFXBlock(i))
          => (/\ i' = i + 3
              /\ IF BlockKey(i) \in seen_fx
                 THEN rows' = rows
                 ELSE Appended /\ rows'[Len(rows')].categoria_high = "FX")]_vars
    /\ [](\A j, k \in FXRows : StoredKey(rows[j]) = StoredKey(rows[k]) => j = k)

\* C1, amended: a valid FX block moves the cursor by 3; it appends exactly
\* one posting of category FX when no earlier block of the file had the same
\* key of description, date token as written, BRL amount, original amount,
\* currency and rate, and appends nothing when one had.  So the FX postings
\* of rows are one per key seen, each storing its key with the date
\* normalized; two blocks whose dates are written differently (12/05, 12/5)
\* have two keys.
C1_OneFXPostingPerKey ==
    /\ [][(Scanning /\ ValidFXBlock(i))
          => (/\ i' = i + 3
              /\ iof_postings' = iof_postings
              /\ IF BlockKey(i) \in seen_fx
                 THEN rows' = rows
                 ELSE /\ Appended
                      /\ rows'[Len(rows')].categoria_high = "FX"
                      /\ StoredKey(rows'[Len(rows')]) = NormKey(BlockKey(i)))]_vars
    /\ [](pc = "scan" =>
            /\ Cardinality(FXRows) = Cardinality(seen_fx)
            /\ \A k \in FXRows : \E key \in seen_fx : StoredKey(rows[k]) = NormKey(key))

\* C1: the three lines of an FX block came twice and the file gave one
\* FX posting.
C1_Witness ==
    /\ i = 6
    /\ Len(rows) = 1
    /\ FromFXBlock(rows[1])
    /\ Count(stats, "fx") = 1
    /\ Count(stats, "regex_miss") = 0

\* the date of the last domestic or FX posting of rs, "" when there is none
LastPurchaseDate(rs) ==
    LET ks == {k \in 1..Len(rs) : FromFXBlock(rs[k]) \/ FromDomestic(rs[k])}
    IN  IF ks = {} THEN ""
        ELSE rs[CHOOSE k \in ks : \A j \in ks : j <= k].post_date

\* C5, as stated: every IOF posting carries the date of the most recent
\* domestic-purchase or FX posting that precedes its line; a payment line in
\* between does not change it.
C5_IOFDatedByLastPurchase ==
    [][Len(iof_postings') = Len(iof_postings) + 1
       => iof_postings'[Len(iof_postings')].post_date = LastPurchaseDate(rows)]_vars

-----------------------------------------------------------------------------
(* clean and classify as functions of their arguments                      *)

\* the strings of at most n characters of chars
RECURSIVE StringsOver(_, _)
StringsOver(chars, n) ==
    IF n = 0 THEN {""}
    ELSE LET shorter == StringsOver(chars, n - 1)
         IN  shorter \cup {s \o Ch(chars, k) : s \in shorter, k \in 1..Len(chars)}

\* the phrases of at most n words of words, joined by one space
RECURSIVE Phrases(_, _)
Phrases(words, n) ==
    IF n = 0 THEN {""}
    ELSE LET shorter == Phrases(words, n - 1)
         IN  shorter \cup words \cup {s \o " " \o w : s \in shorter \ {""}, w \in words}

\* a function is called on arg; parse_txt is not running
InitCall(p, args) ==
    /\ pc = p
    /\ arg \in args
    /\ res = <<>>
    /\ lines = <<>>
    /\ ref_y = 2025
    /\ ref_m = 5
    /\ i = 0
    /\ skip = 0
    /\ rows = <<>>
    /\ iof_postings = <<>>
    /\ seen_fx = {}
    /\ last_date = None
    /\ pagamento_count = 0
    /\ stats = <<>>

\* the longest raw line given to clean
MaxLenClean == 3

\* a marker symbol of LEAD_SYM, the space, the tab, the underscore and an
\* ordinary character
CleanChars == "> " \o "\t" \o "_a"

InitClean == InitCall("clean", StringsOver(CleanChars, MaxLenClean))

\* clean(arg), and then clean of what clean returned (lines 151-152)
CleanCall ==
    /\ pc = "clean"
    /\ Len(res) < 2
    /\ res' = Append(res, clean(IF res = <<>> THEN arg ELSE res[Len(res)]))
    /\ UNCHANGED <<lines, ref_y, ref_m, i, skip, rows, iof_postings, seen_fx,
                   last_date, pagamento_count, stats, pc, arg>>

NextClean == CleanCall

SpecClean == InitClean /\ [][NextClean]_vars

\* C10, as stated: clean(clean(x)) = clean(x) for every raw line x, and
\* clean(x) never starts with a marker symbol of LEAD_SYM.
C10_CleanIdempotent ==
    pc = "clean" =>
        /\ Len(res) = 2 => res[2] = res[1]
        /\ Len(res) >= 1 => ~InStr(Ch(res[1], 1), LEAD_SYM)

\* the longest description given to classify, in words
MaxWords == 2

\* words in mixed case that hold the recipient code, keywords of the
\* rules and of the table, a currency code, and no keyword at all
ClassifyWords == {"7117", "Ajuste", "juros", "Uber", "hotel", "LOJA", "usd", "xyz"}

\* amounts around the limits 0 and 0.30 of the AJUSTE rule
ClassifyAmounts == {Dec(0, 0), Dec(30, 2), Dec(-30, 2), Dec(31, 2), Dec(1000, 2)}

InitClassify == InitCall("classify", Phrases(ClassifyWords, MaxWords) \X ClassifyAmounts)

\* classify(desc, amt) (lines 76-124)
ClassifyCall ==
    /\ pc = "classify"
    /\ res = <<>>
    /\ res' = <<classify(arg[1], arg[2])>>
    /\ UNCHANGED <<lines, ref_y, ref_m, i, skip, rows, iof_postings, seen_fx,
                   last_date, pagamento_count, stats, pc, arg>>

NextClassify == ClassifyCall

SpecClassify == InitClassify /\ [][NextClassify]_vars

\* the amount in hundredths (amounts have at most two decimal places)
Cents(v) == v.n * Pow10(2 - v.e)

\* the closed set of categories
Categories ==
    {"PAGAMENTO", "AJUSTE", "ENCARGOS", "FX", "DIVERSOS"}
        \cup {mapping[j][2] : j \in 1..Len(mapping)}

\* the six rules of the claim, on the description in upper case
RuleApplies(r, d, amt) ==
    CASE r = 1 -> Contains(d, "7117")
      [] r = 2 -> Contains(d, "AJUSTE") \/ (0 < Abs(Cents(amt)) /\ Abs(Cents(amt)) <= 30)
      [] r = 3 -> \E k \in {"IOF", "JUROS", "MULTA"} : Contains(d, k)
      [] r = 4 -> \E j \in 1..Len(mapping) : Contains(d, mapping[j][1])
      [] r = 5 -> \E k \in {"EUR", "USD", "FX"} : Contains(d, k)
      [] r = 6 -> TRUE

RuleCategory(r, d) ==
    CASE r = 1 -> "PAGAMENTO"
      [] r = 2 -> "AJUSTE"
      [] r = 3 -> "ENCARGOS"
      [] r = 4 -> LET js == {j \in 1..Len(mapping) : Contains(d, mapping[j][1])}
                  IN  mapping[CHOOSE j \in js : \A k \in js : j <= k][2]
      [] r = 5 -> "FX"
      [] r = 6 -> "DIVERSOS"

\* C8: classify returns one category of the closed set, that of the first
\* rule that applies in the order (1) recipient code 7117, for any amount,
\* (2) AJUSTE keyword or 0 < |amt| <= 0.30, (3) IOF, JUROS or MULTA,
\* (4) the first matching entry of the keyword table, (5) EUR, USD or FX,
\* (6) DIVERSOS; the tests are substring tests that ignore case.
C8_FirstApplicableRule ==
    (pc = "classify" /\ res # <<>>) =>
        LET d == Upper(arg[1])
            rs == {r \in 1..6 : RuleApplies(r, d, arg[2])}
            first == CHOOSE r \in rs : \A q \in rs : r <= q
        IN  res[1] = RuleCategory(first, d) /\ res[1] \in Categories

\* C8: classify was called on a description in lower and mixed case in
\* which two keywords of the table occur, the second word being that of the
\* earlier entry, and returned the category of the earlier entry.
C8_Witness ==
    /\ pc = "classify"
    /\ arg[1] = "hotel Uber"
    /\ arg[2] = Dec(1000, 2)
    /\ res = <<"TRANSPORTE">>

-----------------------------------------------------------------------------
(* compare_metrics                                                         *)
(*                                                                         *)
(* float(x) is the IEEE 754 double nearest to x (ties to even), and the    *)
(* difference of two doubles is rounded the same way.  The magnitude of a  *)
(* double is held as a fixed-point sequence of bits, most significant      *)
(* first: IntW bits before the binary point and FracW after it.            *)

\* significant bits of a double
Mantissa == 53

\* bits before and after the binary point; the numbers compared here are
\* below 2^IntW and, when not zero, at least 2^-10
IntW == 10
FracW == 64

\* q in n bits
RECURSIVE IntBitsOf(_, _)
IntBitsOf(q, n) == IF n = 0 THEN <<>> ELSE IntBitsOf(q \div 2, n - 1) \o <<q % 2>>

\* the first 8 * n bits of r / den after the binary point, for r < den,
\* eight bits at a time
RECURSIVE FracBitsOf(_, _, _)
FracBitsOf(r, den, n) ==
    IF n = 0 THEN <<>>
    ELSE IntBitsOf((256 * r) \div den, 8) \o FracBitsOf((256 * r) % den, den, n - 1)

\* what is left of r / den after them
RECURSIVE FracRem(_, _, _)
FracRem(r, den, n) == IF n = 0 THEN r ELSE FracRem((256 * r) % den, den, n - 1)

\* n / den to FracW bits, and whether anything was cut off
Fixed(n, den) ==
    [bits |-> IntBitsOf(n \div den, IntW) \o FracBitsOf(n % den, den, FracW \div 8),
     sticky |-> FracRem(n % den, den, FracW \div 8) # 0]

\* b + 1 in the last place: the last 0 becomes 1 and the 1s after it 0
Incr(b) ==
    LET zeros == {k \in 1..Len(b) : b[k] = 0}
        z == CHOOSE k \in zeros : \A j \in zeros : j <= k
    IN  IF zeros = {} THEN [k \in 1..Len(b) |-> 0]
        ELSE [k \in 1..Len(b) |-> IF k < z THEN b[k] ELSE IF k = z THEN 1 ELSE 0]

\* a + b + c on sequences of one length, the carry out in front; the two
\* halves are added one after the other
RECURSIVE AddCarry(_, _, _)
AddCarry(a, b, c) ==
    IF Len(a) = 0 THEN <<c>>
    ELSE IF Len(a) = 1 THEN <<(a[1] + b[1] + c) \div 2, (a[1] + b[1] + c) % 2>>
    ELSE LET m == Len(a) \div 2
             lo == AddCarry(SubSeq(a, m + 1, Len(a)), SubSeq(b, m + 1, Len(b)), c)
         IN  (IF lo[1] = 1 THEN AddCarry(SubSeq(a, 1, m), SubSeq(b, 1, m), 1)
              ELSE AddCarry(SubSeq(a, 1, m), SubSeq(b, 1, m), 0)) \o Tail(lo)

AddBits(a, b, c) == Tail(AddCarry(a, b, c))

\* a - b - c on sequences of one length, the borrow out in front
RECURSIVE SubBorrow(_, _, _)
SubBorrow(a, b, c) ==
    IF Len(a) = 0 THEN <<c>>
    ELSE IF Len(a) = 1
    THEN <<IF a[1] - b[1] - c < 0 THEN 1 ELSE 0, (a[1] - b[1] - c + 2) % 2>>
    ELSE LET m == Len(a) \div 2
             lo == SubBorrow(SubSeq(a, m + 1, Len(a)), SubSeq(b, m + 1, Len(b)), c)
         IN  (IF lo[1] = 1 THEN SubBorrow(SubSeq(a, 1, m), SubSeq(b, 1, m), 1)
              ELSE SubBorrow(SubSeq(a, 1, m), SubSeq(b, 1, m), 0)) \o Tail(lo)

\* a - b - c for a >= b
SubBits(a, b, c) == Tail(SubBorrow(a, b, c))

\* a < b
LessBits(a, b) ==
    \E k \in 1..Len(a) : a[k] < b[k] /\ \A j \in 1..(k - 1) : a[j] = b[j]

\* round to nearest, ties to even, at Mantissa significant bits
RoundToDouble(x) ==
    LET b == x.bits
        ones == {k \in 1..Len(b) : b[k] = 1}
        lead == CHOOSE k \in ones : \A j \in ones : k <= j
        last == lead + Mantissa - 1
    IN  IF ones = {} \/ last >= Len(b) THEN b
        ELSE LET rest == x.sticky \/ \E k \in (last + 2)..Len(b) : b[k] = 1
                 up == b[last + 1] = 1 /\ (rest \/ b[last] = 1)
                 keep == SubSeq(b, 1, last)
             IN  (IF up THEN Incr(keep) ELSE keep) \o [k \in 1..(Len(b) - last) |-> 0]

IsDigits(s) == s # "" /\ \A k \in 1..Len(s) : IsDigit(Ch(s, k))

\* float(v): of the texts, those made of digits convert here; None and the
\* other texts raise
ToFloat(v) ==
    CASE v.t = "int" ->
            [ok |-> TRUE, neg |-> v.n < 0, bits |-> RoundToDouble(Fixed(Abs(v.n), 1))]
      [] v.t \in {"dec", "float"} ->
            [ok |-> TRUE, neg |-> v.n < 0,
             bits |-> RoundToDouble(Fixed(Abs(v.n), Pow10(v.e)))]
      [] v.t = "str" /\ IsDigits(v.s) ->
            [ok |-> TRUE, neg |-> FALSE, bits |-> RoundToDouble(Fixed(StrToInt(v.s), 1))]
      [] OTHER -> [ok |-> FALSE]

\* abs(a - b) of two doubles
AbsDiff(a, b) ==
    RoundToDouble(
        [bits |-> IF a.neg # b.neg THEN AddBits(a.bits, b.bits, 0)
                  ELSE IF LessBits(a.bits, b.bits) THEN SubBits(b.bits, a.bits, 0)
                  ELSE SubBits(a.bits, b.bits, 0),
         sticky |-> FALSE])

\* the literal 0.05
Tolerance == RoundToDouble(Fixed(5, 100))

\* isinstance(v, (float, int, Decimal))
IsNumeric(v) == v.t \in {"int", "float", "dec"}

\* val_csv or 0
OrZero(v) ==
    IF v = None \/ v = Empty \/ (IsNumeric(v) /\ v.n = 0) THEN IntV(0) ELSE v

\* lines 160-166: ok for one key
Verdict(val_pdf, val_csv) ==
    IF IsNumeric(val_pdf) \/ IsNumeric(val_csv)
    THEN LET a == ToFloat(val_pdf)
             b == ToFloat(OrZero(val_csv))
         IN  a.ok /\ b.ok /\ LessBits(AbsDiff(a, b), Tolerance)
    ELSE val_pdf = val_csv

\* keys of the reference mapping, in the order the loop visits them
MetricKeys == <<"Pagamentos efetuados", "Total desta fatura", "Saldo calculado">>

\* the most keys a mapping holds
MaxKeys == 2

\* values of a mapping: amounts held as floats 0.04 to 0.06 apart, an
\* integer, a text that reads as that integer and one that reads as none
MetricValues ==
    {Float(Dec(1, 2)), Float(Dec(5, 2)), Float(Dec(6, 2)), Float(Dec(7, 2)),
     IntV(6), Str("6"), Str("x")}

\* the mappings over the keys ks
MappingsOver(ks) == [ks -> MetricValues]

\* arg = <<pdf_metrics, csv_metrics>>: the reference mapping over the first
\* n keys, the computed one over any of them
MetricArgs ==
    UNION {MappingsOver({MetricKeys[k] : k \in 1..n})
             \X UNION {MappingsOver(ks) : ks \in SUBSET {MetricKeys[k] : k \in 1..n}}
           : n \in 0..MaxKeys}

InitMetrics == InitCall("metrics", MetricArgs)

\* one iteration of the loop of compare_metrics (lines 156-167); res holds
\* the verdicts printed so far
CompareKey ==
    /\ pc = "metrics"
    /\ Len(res) < Cardinality(DOMAIN arg[1])
    /\ LET key == MetricKeys[Len(res) + 1]
           val_pdf == arg[1][key]
           val_csv == Get(arg[2], key)
       IN  res' = Append(res, Verdict(val_pdf, val_csv))
    /\ UNCHANGED <<lines, ref_y, ref_m, i, skip, rows, iof_postings, seen_fx,
                   last_date, pagamento_count, stats, pc, arg>>

NextMetrics == CompareKey

SpecMetrics == InitMetrics /\ [][NextMetrics]_vars

\* the number a value stands for, in hundredths; a computed value that is
\* missing, empty or zero counts as 0
HasNumber(v) == IsNumeric(v) \/ (v.t = "str" /\ IsDigits(v.s))

NumberOf(v) ==
    IF v.t = "int" THEN 100 * v.n
    ELSE IF v.t = "str" THEN 100 * StrToInt(v.s)
    ELSE Cents(v)

\* C9, as stated: for every key of the reference mapping the verdict is
\* match exactly when either value is numeric and the absolute difference of
\* the two values taken as numbers is strictly below 0.05, or neither is
\* numeric and the two are equal; and compare_metrics changes neither
\* mapping nor the postings.
C9_MatchWithinTolerance ==
    /\ [](pc = "metrics" =>
            \A k \in 1..Len(res) :
                LET p == arg[1][MetricKeys[k]]
                    c == Get(arg[2], MetricKeys[k])
                IN  res[k] =
                        IF IsNumeric(p) \/ IsNumeric(c)
                        THEN /\ HasNumber(p)
                             /\ HasNumber(OrZero(c))
                             /\ Abs(NumberOf(p) - NumberOf(OrZero(c))) < 5
                        ELSE p = c)
    /\ [][pc = "metrics" => UNCHANGED <<arg, rows>>]_vars

====
